---- MODULE Spec2Model ----
(***************************************************************************)
(* A model of the Splunk MCP server (src/python/server.py): the lifespan   *)
(* that owns the backend client, the risk gate of the two search tools,    *)
(* the metadata tools and the two resource handlers.                       *)
(*                                                                         *)
(* The modules guardrails.py, splunk_client.py and helpers.py are imported *)
(* by server.py; what the server needs of them (validate_spl_query,        *)
(* sanitize_output, SplunkClient) is modelled from the written             *)
(* specification of the system.                                            *)
(*                                                                         *)
(* Every handler is a coroutine: it runs without interruption from one     *)
(* await to the next.  A tool handler has one await (the backend call), so *)
(* it is modelled by two steps, the call and the return.                   *)
(***************************************************************************)
EXTENDS Integers, Sequences, FiniteSets, TLC

(***************************************************************************)
(* Optional values: None is the empty sequence, Some(v) the sequence <<v>>. *)
(***************************************************************************)
None == << >>

Some(v) == << v >>

Min(a, b) == IF a <= b THEN a ELSE b

(***************************************************************************)
(* Bounds of the model.                                                    *)
(***************************************************************************)
\* the largest number of events the modelled backend holds for a query
MaxBackendEvents == 3

(***************************************************************************)
(* Input domains.                                                          *)
(***************************************************************************)
Tasks == {1, 2}

\* rule categories of the risk assessor (spec section 3, RiskRule)
Rules == {"destructive", "resource", "timerange"}

\* A query is represented by the set of rules its text triggers under the
\* configured safe time range ("| delete" by {"destructive"}).
Queries == SUBSET Rules

\* The config dict of lines 32-49, as far as the handlers read it.
\* SPL_RISK_TOLERANCE and SPL_MAX_EVENTS_COUNT are read by int(os.getenv(...)):
\* any integer is taken as it is.
Config(tolerance, max_events, sanitize) ==
    [spl_risk_tolerance   |-> tolerance,
     spl_max_events_count |-> max_events,
     spl_sanitize_output  |-> sanitize,
     splunk_password      |-> "secret",
     splunk_token         |-> "token"]

\* the environments followed: the defaults first
Configs ==
    {Config(75, 100000, FALSE), Config(30, 2, TRUE), Config(29, 100000, FALSE),
     Config(150, 2, FALSE), Config(-1, 100000, TRUE)}

\* the per-call risk_tolerance argument: None or any integer
ToleranceArgs == {None, Some(-1), Some(0), Some(29), Some(30), Some(100), Some(150)}

\* the per-call max_count argument
MaxCountArgs == {0, 1, 100}

\* the per-call output_format argument
OutputFormats == {"json", "md", "xml"}

\* the per-call sanitize_output argument
SanitizeArgs == {None, Some(TRUE), Some(FALSE)}

SearchOps == {"search_oneshot", "search_export"}

MetadataOps == {"get_indexes", "get_saved_searches", "run_saved_search"}

Resources == {"splunk://saved-searches", "splunk://indexes"}

VARIABLES
    config,     \* the dict built by app_lifespan from the environment
    lifespan,   \* where app_lifespan stands, and the exception it raised
    conn,       \* state of the lifespan's SplunkClient
    ctx,        \* the AppContext request handlers are given: None or Some
    sessions,   \* the owners of the backend sessions open right now
    opened,     \* how many times the lifespan's client has been connected
    req,        \* per task: the tool call it runs, its locals and its result
    res,        \* per resource: the read in progress and its result
    health      \* the monitor script: its health check in progress

vars == << config, lifespan, conn, ctx, sessions, opened, req, res, health >>

(***************************************************************************)
(* guardrails.validate_spl_query: every rule that fires contributes its    *)
(* full weight, the contributions are summed and the sum is clamped to     *)
(* [0,100]; the message lists the triggered rules by category priority.    *)
(***************************************************************************)
RuleWeight == [destructive |-> 90, resource |-> 30, timerange |-> 20]

RulePriority == << "destructive", "resource", "timerange" >>

RECURSIVE SumWeights(_)
SumWeights(rs) ==
    IF rs = {} THEN 0
    ELSE LET r == CHOOSE x \in rs : TRUE
         IN  RuleWeight[r] + SumWeights(rs \ {r})

\* the sum handed on as it is, without the clamp
Clamp_none(n) == n

Clamp(n) == IF n < 0 THEN 0 ELSE IF n > 100 THEN 100 ELSE n

validate_spl_query(query) ==
    [risk_score   |-> Clamp(SumWeights(query)),
     risk_message |-> SelectSeq(RulePriority, LAMBDA r : r \in query)]

(***************************************************************************)
(* SplunkClient.search_oneshot / search_export: of the `avail` events the  *)
(* backend holds, the client returns at most max_count, all when           *)
(* max_count is 0.                                                         *)
(***************************************************************************)
SplunkClient_search(avail, max_count) ==
    IF max_count = 0 THEN avail ELSE Min(avail, max_count)

(***************************************************************************)
(* SplunkClient's connection state (spec section 4.3): Disconnected ->     *)
(* Connecting -> Connected -> Disconnecting -> Disconnected; a connect()   *)
(* that fails leaves the client Disconnected.                              *)
(***************************************************************************)
SplunkClient_new == "Disconnected"

\* connect(): while it is awaited, and once it has returned or raised
SplunkClient_connect(phase) ==
    IF phase = "awaited" THEN "Connecting"
    ELSE IF phase = "returned" THEN "Connected"
    ELSE "Disconnected"

\* disconnect(): while it is awaited, and once it has returned or raised
SplunkClient_disconnect(phase) ==
    IF phase = "awaited" THEN "Disconnecting" ELSE "Disconnected"

\* The backend side of one awaited client call (spec section 5): the job and
\* its stream are open while the call is awaited and closed once it returned
\* or raised; when the awaiting request is cancelled the client signals the
\* backend to cancel the job and closes the stream, and a cancel signal that
\* fails is logged, the stream being closed all the same.
SplunkClient_call(phase) ==
    IF phase = "awaited" THEN "running"
    ELSE IF phase \in {"returned", "raised"} THEN "completed"
    ELSE IF phase = "cancelled" THEN "cancelled"
    ELSE "cancel_failed"

\* what a backend call can come to: events, SplunkAPIError, another exception
BackendOutcomes == {"ok", "SplunkAPIError", "Exception"}

\* guardrails.sanitize_output marks the events it has gone over
sanitize_fn(events) == [events EXCEPT !.sanitized = TRUE]

(***************************************************************************)
(* The state of a task that runs no tool call.                             *)
(***************************************************************************)
NoArgs ==
    [query |-> {}, max_count |-> 0, output_format |-> "json",
     risk_tolerance |-> None, sanitize_output |-> None]

IdleReq ==
    [pc             |-> "idle",
     op             |-> "none",
     args           |-> NoArgs,
     risk_tolerance |-> None,     \* the local after lines 123-124
     sanitize_output|-> FALSE,    \* the local after lines 125-126
     max_count      |-> None,     \* the local after lines 144-145
     risk           |-> None,     \* Some(validate_spl_query(...)) once called
     trace          |-> << >>,    \* the calls made, in order
     produced       |-> None,     \* Some(events the backend held) once it answered
     backend        |-> "none",   \* the job and stream of the awaited client call
     result         |-> [kind |-> "none"]]

(***************************************************************************)
(* scripts/mcp_performance_monitor.py, check_mcp_sse_health: the           *)
(* health_data dict of lines 157-164 (endpoint left out), and the monitor  *)
(* between two checks.                                                     *)
(***************************************************************************)
health_data ==
    [is_healthy       |-> FALSE,
     response_time_ms |-> 0,
     status_code      |-> 0,
     error            |-> None,
     method           |-> "unknown"]

HealthIdle == [pc |-> "idle", data |-> health_data, probes |-> << >>]

\* a resource handler that is not running; `failed` names the step of a
\* read that raised ("connect", "list", "close"), "none" while none has
IdleRes == [pc |-> "idle", result |-> "none", failed |-> "none"]

(***************************************************************************)
(* app_lifespan (lines 23-57).                                             *)
(***************************************************************************)
Init ==
    /\ config \in Configs
    /\ lifespan = [pc |-> "created", error |-> "none"]
    /\ conn = SplunkClient_new
    /\ ctx = None
    /\ sessions = {}
    /\ opened = 0
    /\ req = [t \in Tasks |-> IdleReq]
    /\ res = [r \in Resources |-> IdleRes]
    /\ health = HealthIdle

\* line 54: await splunk_client.connect()
lifespan_connect_call ==
    /\ lifespan.pc = "created"
    /\ lifespan' = [lifespan EXCEPT !.pc = "connecting"]
    /\ conn' = SplunkClient_connect("awaited")
    /\ UNCHANGED << config, ctx, sessions, opened, req, res, health >>

\* line 55 yielding AppContext(config=config): splunk_client keeps the
\* default None of line 21
AppContext_without_client == [splunk_client |-> None]

\* what AppContext the lifespan yields
AppContext == [splunk_client |-> Some("lifespan")]

\* lines 54-55: connect() returned; yield AppContext(config, splunk_client)
lifespan_yield ==
    /\ lifespan.pc = "connecting"
    /\ lifespan' = [lifespan EXCEPT !.pc = "serving"]
    /\ conn' = SplunkClient_connect("returned")
    /\ sessions' = sessions \cup {"lifespan"}
    /\ opened' = opened + 1
    /\ ctx' = Some(AppContext)
    /\ UNCHANGED << config, req, res, health >>

\* line 54 with the failure of connect() swallowed: the context is yielded
\* on a client that never connected
lifespan_connect_swallowed ==
    /\ lifespan.pc = "connecting"
    /\ lifespan' = [lifespan EXCEPT !.pc = "serving"]
    /\ conn' = "Disconnected"
    /\ ctx' = Some([splunk_client |-> Some("lifespan")])
    /\ UNCHANGED << config, sessions, opened, req, res, health >>

\* line 54: connect() raised; control passes to the finally clause
lifespan_connect_raises ==
    /\ lifespan.pc = "connecting"
    /\ lifespan' = [pc |-> "finally", error |-> "connect"]
    /\ conn' = SplunkClient_connect("raised")
    /\ UNCHANGED << config, ctx, sessions, opened, req, res, health >>

\* every tool call and resource read has ended and been answered: the
\* framework leaves the lifespan only after the tasks of the session
Quiet ==
    /\ \A t \in Tasks : req[t].pc = "idle"
    /\ \A r \in Resources : res[r].pc = "idle"

\* lines 55-57 with the context still handed out while disconnect() runs
lifespan_leave_serving_on(how) ==
    /\ lifespan.pc = "serving"
    /\ Quiet
    /\ lifespan' = [pc |-> "finally", error |-> how]
    /\ UNCHANGED << config, conn, ctx, sessions, opened, req, res, health >>

\* lines 53-57 without the try/finally: an exception thrown into the yield
\* (an error of the session, a cancellation) leaves the lifespan at once
lifespan_leave_unprotected(how) ==
    /\ lifespan.pc = "serving"
    /\ Quiet
    /\ lifespan' = [pc |-> IF how = "none" THEN "finally" ELSE "exited", error |-> how]
    /\ ctx' = None
    /\ UNCHANGED << config, conn, sessions, opened, req, res, health >>

\* lines 55-56: the served session ends (normally, by an error or by
\* cancellation) and control passes to the finally clause
lifespan_leave(how) ==
    /\ lifespan.pc = "serving"
    /\ Quiet
    /\ lifespan' = [pc |-> "finally", error |-> how]
    /\ ctx' = None
    /\ UNCHANGED << config, conn, sessions, opened, req, res, health >>

\* line 57: await splunk_client.disconnect()
lifespan_disconnect_call ==
    /\ lifespan.pc = "finally"
    /\ lifespan' = [lifespan EXCEPT !.pc = "disconnecting"]
    /\ conn' = SplunkClient_disconnect("awaited")
    /\ UNCHANGED << config, ctx, sessions, opened, req, res, health >>

\* line 57: disconnect() returned or raised; the lifespan is left, with the
\* exception of disconnect() if it raised, else with the one that led here
lifespan_disconnect_return(raised) ==
    /\ lifespan.pc = "disconnecting"
    /\ lifespan' = [pc    |-> "exited",
                    error |-> IF raised THEN "disconnect" ELSE lifespan.error]
    /\ conn' = SplunkClient_disconnect(IF raised THEN "raised" ELSE "returned")
    /\ sessions' = sessions \ {"lifespan"}
    /\ UNCHANGED << config, ctx, opened, req, res, health >>

(***************************************************************************)
(* Tool handlers.  A task is handed a tool call only while the lifespan    *)
(* is suspended at its yield: ctx is the lifespan_context of the call, and *)
(* its config is the lifespan's config dict itself (by reference).         *)
(***************************************************************************)
Started(t, op, args) == [IdleReq EXCEPT !.op = op, !.args = args]

Returned(r, result) == [r EXCEPT !.pc = "done", !.result = result]

\* lines 116, 233, 326, 349, 375
NotInitialized == [kind |-> "not_initialized", error |-> "Splunk client not initialized"]

\* the events a backend search hands back, before sanitization
Events(n) == [n |-> n, sanitized |-> FALSE]

(***************************************************************************)
(* validate_spl (lines 68-95); it has no await.                            *)
(***************************************************************************)
\* line 93 with < in place of <=: a score equal to the tolerance is refused
would_execute_strict(risk_score, risk_tolerance) == risk_score < risk_tolerance

\* line 93 with the verdict loosened by the calls in flight: the answer
\* depends on what else the server is doing
would_execute_by_load(risk_score, risk_tolerance) ==
    risk_score <= risk_tolerance + Cardinality({u \in Tasks : req[u].pc = "awaiting"})

\* line 93
would_execute(risk_score, risk_tolerance) == risk_score <= risk_tolerance

validate_spl(t, query) ==
    /\ ctx # None
    /\ req[t].pc = "idle"
    /\ LET risk_tolerance == config.spl_risk_tolerance
           risk == validate_spl_query(query)
       IN  req' = [req EXCEPT ![t] =
                [Started(t, "validate_spl", [NoArgs EXCEPT !.query = query])
                    EXCEPT !.pc = "done",
                           !.risk = Some(risk),
                           !.trace = << "validate_spl_query" >>,
                           !.result =
                               [kind           |-> "verdict",
                                risk_score     |-> risk.risk_score,
                                risk_message   |-> risk.risk_message,
                                risk_tolerance |-> risk_tolerance,
                                would_execute  |-> would_execute(risk.risk_score,
                                                                 risk_tolerance)]]]
    /\ UNCHANGED << config, lifespan, conn, ctx, sessions, opened, res, health >>

(***************************************************************************)
(* search_oneshot (lines 98-213).                                          *)
(***************************************************************************)
\* lines 119-126 with the resolved values written back into the dict
oneshot_config_storing(cfg, risk_tolerance, sanitize_output) ==
    [cfg EXCEPT !.spl_risk_tolerance =
                    IF risk_tolerance = None THEN @ ELSE risk_tolerance[1],
                !.spl_sanitize_output =
                    IF sanitize_output = None THEN @ ELSE sanitize_output[1]]

\* lines 119-145: config is the lifespan's dict itself, and the handler only
\* reads it (config.get); the overrides are resolved into locals
oneshot_config(cfg, risk_tolerance, sanitize_output) == cfg

\* lines 123-124 without the override: the configured tolerance is used
oneshot_risk_tolerance_configured(risk_tolerance, cfg) == cfg.spl_risk_tolerance

\* lines 123-124
oneshot_risk_tolerance(risk_tolerance, cfg) ==
    IF risk_tolerance = None THEN cfg.spl_risk_tolerance ELSE risk_tolerance[1]

\* lines 125-126 as `sanitize_output or config.get(...)`: a false override
\* falls back to the configured flag
oneshot_sanitize_output_or(sanitize_output, cfg) ==
    IF sanitize_output = None \/ sanitize_output = Some(FALSE)
    THEN cfg.spl_sanitize_output ELSE TRUE

\* lines 125-126
oneshot_sanitize_output(sanitize_output, cfg) ==
    IF sanitize_output = None THEN cfg.spl_sanitize_output ELSE sanitize_output[1]

\* line 129 with the default tolerance for the bound: at 75 nothing is validated
oneshot_validates_below_default(risk_tolerance) == risk_tolerance < 75

\* line 129: the query is validated only below a tolerance of 100
oneshot_validates(risk_tolerance) == risk_tolerance < 100

\* line 133 with >= in place of >: a score equal to the tolerance is blocked
oneshot_exceeds_or_equal(risk_score, risk_tolerance) == risk_score >= risk_tolerance

\* line 133 off by one: a score of tolerance + 1 passes
oneshot_exceeds_late(risk_score, risk_tolerance) == risk_score > risk_tolerance + 1

\* line 133
oneshot_exceeds(risk_score, risk_tolerance) == risk_score > risk_tolerance

\* lines 134-141
oneshot_blocked(risk, risk_tolerance) ==
    [kind            |-> "blocked",
     error           |-> "Query exceeds risk tolerance",
     risk_score      |-> risk.risk_score,
     risk_tolerance  |-> risk_tolerance,
     risk_message    |-> risk.risk_message,
     search_executed |-> FALSE,
     data_returned   |-> None]

\* lines 144-145
oneshot_max_count(max_count, cfg) ==
    IF max_count = 100 THEN cfg.spl_max_events_count ELSE max_count

\* lines 157-208 with json as the fallback of the final else
oneshot_format_lenient(events, output_format, max_count) ==
    LET fmt == IF output_format = "md" THEN "markdown" ELSE output_format
    IN  IF fmt \in {"markdown", "csv", "summary"}
        THEN [kind |-> "content", event_count |-> events.n, format |-> fmt,
              content |-> events,
              search_params |-> [max_count |-> max_count]]
        ELSE [kind |-> "events", event_count |-> events.n, events |-> events,
              search_params |-> [max_count |-> max_count]]

\* lines 157-208
oneshot_format(events, output_format, max_count) ==
    LET fmt == IF output_format = "md" THEN "markdown" ELSE output_format
    IN  IF fmt = "json"
        THEN [kind |-> "events", event_count |-> events.n, events |-> events,
              search_params |-> [max_count |-> max_count]]
        ELSE IF fmt \in {"markdown", "csv", "summary"}
        THEN [kind |-> "content", event_count |-> events.n, format |-> fmt,
              content |-> events,
              search_params |-> [max_count |-> max_count]]
        ELSE [kind |-> "format_error", error |-> "Invalid output_format"]

\* lines 115-148: from the call to the await of client.search_oneshot
search_oneshot_call(t, query, max_count, output_format, risk_tolerance, sanitize_output) ==
    /\ ctx # None
    /\ req[t].pc = "idle"
    /\ LET r0 == Started(t, "search_oneshot",
                         [query |-> query, max_count |-> max_count,
                          output_format |-> output_format,
                          risk_tolerance |-> risk_tolerance,
                          sanitize_output |-> sanitize_output])
       IN  IF ctx[1].splunk_client = None
           THEN req' = [req EXCEPT ![t] = Returned(r0, NotInitialized)]
           ELSE
           LET tol  == oneshot_risk_tolerance(risk_tolerance, config)
               san  == oneshot_sanitize_output(sanitize_output, config)
               r1   == [r0 EXCEPT !.risk_tolerance = Some(tol),
                                  !.sanitize_output = san]
               risk == validate_spl_query(query)
               r2   == IF oneshot_validates(tol)
                       THEN [r1 EXCEPT !.risk = Some(risk),
                                       !.trace = << "validate_spl_query" >>]
                       ELSE r1
           IN  IF oneshot_validates(tol) /\ oneshot_exceeds(risk.risk_score, tol)
               THEN req' = [req EXCEPT ![t] =
                               Returned(r2, oneshot_blocked(risk, tol))]
               ELSE req' = [req EXCEPT ![t] =
                               [r2 EXCEPT !.pc = "awaiting",
                                          !.max_count =
                                              Some(oneshot_max_count(max_count, config)),
                                          !.backend = SplunkClient_call("awaited"),
                                          !.trace = Append(@, "client.search_oneshot")]]
    /\ config' = oneshot_config(config, risk_tolerance, sanitize_output)
    /\ UNCHANGED << lifespan, conn, ctx, sessions, opened, res, health >>

\* lines 148-213: client.search_oneshot returned or raised
search_oneshot_return(t, outcome, avail) ==
    /\ req[t].pc = "awaiting"
    /\ req[t].op = "search_oneshot"
    /\ LET r == [req[t] EXCEPT !.backend =
                   SplunkClient_call(IF outcome = "ok" THEN "returned" ELSE "raised")]
           events == Events(SplunkClient_search(avail, r.max_count[1]))
           out == IF r.sanitize_output THEN sanitize_fn(events) ELSE events
       IN  req' = [req EXCEPT ![t] =
               IF outcome = "ok"
               THEN Returned([r EXCEPT !.produced = Some(avail)],
                             oneshot_format(out, r.args.output_format, r.max_count[1]))
               ELSE IF outcome = "SplunkAPIError"
               THEN Returned(r, [kind |-> "api_error", error |-> "SplunkAPIError",
                                 details |-> "details"])
               ELSE Returned(r, [kind |-> "failed", error |-> "Search failed"])]
    /\ UNCHANGED << config, lifespan, conn, ctx, sessions, opened, res, health >>

(***************************************************************************)
(* search_export (lines 215-314).                                         *)
(***************************************************************************)
\* lines 236-243 with the resolved tolerance written back into the dict
export_config_storing(cfg, risk_tolerance, sanitize_output) ==
    [cfg EXCEPT !.spl_risk_tolerance =
                    IF risk_tolerance = None THEN @ ELSE risk_tolerance[1]]

\* lines 236-262: config is the lifespan's dict itself, and the handler only
\* reads it (config.get); the overrides are resolved into locals
export_config(cfg, risk_tolerance, sanitize_output) == cfg

\* lines 240-241 without the override: the configured tolerance is used
export_risk_tolerance_configured(risk_tolerance, cfg) == cfg.spl_risk_tolerance

\* lines 240-241
export_risk_tolerance(risk_tolerance, cfg) ==
    IF risk_tolerance = None THEN cfg.spl_risk_tolerance ELSE risk_tolerance[1]

\* lines 242-243
export_sanitize_output(sanitize_output, cfg) ==
    IF sanitize_output = None THEN cfg.spl_sanitize_output ELSE sanitize_output[1]

\* line 246: the query is validated only below a tolerance of 100
export_validates(risk_tolerance) == risk_tolerance < 100

\* line 250 with the comparison lost: nothing is blocked
export_exceeds_never(risk_score, risk_tolerance) == FALSE

\* line 250 with >= in place of >: a score equal to the tolerance is blocked
export_exceeds_early(risk_score, risk_tolerance) == risk_score >= risk_tolerance

\* line 250
export_exceeds(risk_score, risk_tolerance) == risk_score > risk_tolerance

\* lines 251-258
export_blocked(risk, risk_tolerance) ==
    [kind            |-> "blocked",
     error           |-> "Query exceeds risk tolerance",
     risk_score      |-> risk.risk_score,
     risk_tolerance  |-> risk_tolerance,
     risk_message    |-> risk.risk_message,
     search_executed |-> FALSE,
     data_returned   |-> None]

\* lines 261-262 with 0 taken for "not given" as well
export_max_count_or_zero(max_count, cfg) ==
    IF max_count \in {0, 100} THEN cfg.spl_max_events_count ELSE max_count

\* lines 261-262
export_max_count(max_count, cfg) ==
    IF max_count = 100 THEN cfg.spl_max_events_count ELSE max_count

\* lines 274-309
export_format(events, output_format, max_count) ==
    LET fmt == IF output_format = "md" THEN "markdown" ELSE output_format
    IN  IF fmt = "json"
        THEN [kind |-> "events", event_count |-> events.n, events |-> events,
              is_preview |-> FALSE]
        ELSE IF fmt \in {"markdown", "csv", "summary"}
        THEN [kind |-> "content", event_count |-> events.n, format |-> fmt,
              content |-> events, is_preview |-> FALSE]
        ELSE [kind |-> "format_error", error |-> "Invalid output_format"]

\* lines 232-265: from the call to the await of client.search_export
search_export_call(t, query, max_count, output_format, risk_tolerance, sanitize_output) ==
    /\ ctx # None
    /\ req[t].pc = "idle"
    /\ LET r0 == Started(t, "search_export",
                         [query |-> query, max_count |-> max_count,
                          output_format |-> output_format,
                          risk_tolerance |-> risk_tolerance,
                          sanitize_output |-> sanitize_output])
       IN  IF ctx[1].splunk_client = None
           THEN req' = [req EXCEPT ![t] = Returned(r0, NotInitialized)]
           ELSE
           LET tol  == export_risk_tolerance(risk_tolerance, config)
               san  == export_sanitize_output(sanitize_output, config)
               r1   == [r0 EXCEPT !.risk_tolerance = Some(tol),
                                  !.sanitize_output = san]
               risk == validate_spl_query(query)
               r2   == IF export_validates(tol)
                       THEN [r1 EXCEPT !.risk = Some(risk),
                                       !.trace = << "validate_spl_query" >>]
                       ELSE r1
           IN  IF export_validates(tol) /\ export_exceeds(risk.risk_score, tol)
               THEN req' = [req EXCEPT ![t] =
                               Returned(r2, export_blocked(risk, tol))]
               ELSE req' = [req EXCEPT ![t] =
                               [r2 EXCEPT !.pc = "awaiting",
                                          !.max_count =
                                              Some(export_max_count(max_count, config)),
                                          !.backend = SplunkClient_call("awaited"),
                                          !.trace = Append(@, "client.search_export")]]
    /\ config' = export_config(config, risk_tolerance, sanitize_output)
    /\ UNCHANGED << lifespan, conn, ctx, sessions, opened, res, health >>

\* lines 265-314: client.search_export returned or raised
search_export_return(t, outcome, avail) ==
    /\ req[t].pc = "awaiting"
    /\ req[t].op = "search_export"
    /\ LET r == [req[t] EXCEPT !.backend =
                   SplunkClient_call(IF outcome = "ok" THEN "returned" ELSE "raised")]
           events == Events(SplunkClient_search(avail, r.max_count[1]))
           out == IF r.sanitize_output THEN sanitize_fn(events) ELSE events
       IN  req' = [req EXCEPT ![t] =
               IF outcome = "ok"
               THEN Returned([r EXCEPT !.produced = Some(avail)],
                             export_format(out, r.args.output_format, r.max_count[1]))
               ELSE IF outcome = "SplunkAPIError"
               THEN Returned(r, [kind |-> "api_error", error |-> "SplunkAPIError",
                                 details |-> "details"])
               ELSE Returned(r, [kind |-> "failed", error |-> "Export search failed"])]
    /\ UNCHANGED << config, lifespan, conn, ctx, sessions, opened, res, health >>

(***************************************************************************)
(* get_indexes, get_saved_searches, run_saved_search (lines 316-386): the  *)
(* three handlers have one shape, the guard, one backend call and the two  *)
(* except clauses.                                                         *)
(***************************************************************************)
\* lines 324-329 with the gate of search_oneshot put in front of the call
metadata_call_gated(t, op) ==
    /\ ctx # None
    /\ req[t].pc = "idle"
    /\ LET r0 == [Started(t, op, NoArgs) EXCEPT
                     !.risk = Some(validate_spl_query({})),
                     !.trace = << "validate_spl_query" >>]
       IN  IF validate_spl_query({}).risk_score > config.spl_risk_tolerance
           THEN req' = [req EXCEPT ![t] =
                           Returned(r0, [kind |-> "blocked",
                                         error |-> "Query exceeds risk tolerance"])]
           ELSE req' = [req EXCEPT ![t] =
                           [r0 EXCEPT !.pc = "awaiting",
                                      !.backend = SplunkClient_call("awaited"),
                                      !.trace = Append(@, "client." \o op)]]
    /\ UNCHANGED << config, lifespan, conn, ctx, sessions, opened, res, health >>

metadata_call(t, op) ==
    /\ ctx # None
    /\ req[t].pc = "idle"
    /\ LET r0 == Started(t, op, NoArgs)
       IN  IF ctx[1].splunk_client = None
           THEN req' = [req EXCEPT ![t] = Returned(r0, NotInitialized)]
           ELSE req' = [req EXCEPT ![t] =
                           [r0 EXCEPT !.pc = "awaiting",
                                      !.backend = SplunkClient_call("awaited"),
                                      !.trace = << "client." \o op >>]]
    /\ UNCHANGED << config, lifespan, conn, ctx, sessions, opened, res, health >>

metadata_return(t, op, outcome, n) ==
    /\ req[t].pc = "awaiting"
    /\ req[t].op = op
    /\ LET r == [req[t] EXCEPT !.backend =
                   SplunkClient_call(IF outcome = "ok" THEN "returned" ELSE "raised")]
       IN  req' = [req EXCEPT ![t] =
               IF outcome = "ok"
               THEN Returned(r, [kind |-> "listing", count |-> n])
               ELSE IF outcome = "SplunkAPIError"
               THEN Returned(r, [kind |-> "api_error", error |-> "SplunkAPIError",
                                 details |-> "details"])
               ELSE Returned(r, [kind |-> "failed", error |-> "Failed to " \o op])]
    /\ UNCHANGED << config, lifespan, conn, ctx, sessions, opened, res, health >>

\* lines 316-337
get_indexes(t) == metadata_call(t, "get_indexes")

\* lines 339-360
get_saved_searches(t) == metadata_call(t, "get_saved_searches")

\* lines 362-386
run_saved_search(t) == metadata_call(t, "run_saved_search")

(***************************************************************************)
(* get_config (lines 388-396); it has no await.                            *)
(***************************************************************************)
\* line 391 without .copy(): the pops and the new key go to the shared dict
get_config_in_place(t) ==
    /\ ctx # None
    /\ req[t].pc = "idle"
    /\ LET stripped == [k \in DOMAIN config \ {"splunk_password", "splunk_token"}
                            |-> config[k]]
       IN  /\ config' = stripped
           /\ req' = [req EXCEPT ![t] =
                  Returned(Started(t, "get_config", NoArgs),
                           [kind |-> "config", config |-> stripped,
                            splunk_connected |-> ctx[1].splunk_client # None])]
    /\ UNCHANGED << lifespan, conn, ctx, sessions, opened, res, health >>

get_config(t) ==
    /\ ctx # None
    /\ req[t].pc = "idle"
    /\ LET copy == [k \in DOMAIN config \ {"splunk_password", "splunk_token"}
                        |-> config[k]]
       IN  req' = [req EXCEPT ![t] =
               Returned(Started(t, "get_config", NoArgs),
                        [kind |-> "config", config |-> copy,
                         splunk_connected |-> ctx[1].splunk_client # None])]
    /\ UNCHANGED << config, lifespan, conn, ctx, sessions, opened, res, health >>

(***************************************************************************)
(* The resource handlers get_saved_searches_resource and                   *)
(* get_indexes_resource (lines 398-485).  Both open a client of their own  *)
(* with `async with SplunkClient(config) as client`, list, render and      *)
(* return the text; `except Exception` turns any failure into an error     *)
(* text.  They take no context.                                            *)
(***************************************************************************)
\* lines 412, 449: entering the async with, which awaits the connect
resource_open(r) ==
    /\ lifespan.pc = "serving"
    /\ res[r].pc = "idle"
    /\ res' = [res EXCEPT ![r] = [IdleRes EXCEPT !.pc = "connecting"]]
    /\ UNCHANGED << config, lifespan, conn, ctx, sessions, opened, req, health >>

\* the temporary client is connected (awaiting the listing), or its
\* connect raised
resource_connected(r, ok) ==
    /\ res[r].pc = "connecting"
    /\ IF ok
       THEN /\ res' = [res EXCEPT ![r].pc = "listing"]
            /\ sessions' = sessions \cup {r}
       ELSE /\ res' = [res EXCEPT ![r] =
                          [pc |-> "done", result |-> "error", failed |-> "connect"]]
            /\ UNCHANGED sessions
    /\ UNCHANGED << config, lifespan, conn, ctx, opened, req, health >>

\* lines 411-433 without the try/except: a listing or rendering that raised
\* leaves the handler as an exception
resource_listed_unguarded(r, ok) ==
    /\ res[r].pc = "listing"
    /\ res' = [res EXCEPT ![r] =
                  [pc |-> "closing", result |-> IF ok THEN "content" ELSE "raised",
                   failed |-> IF ok THEN "none" ELSE "list"]]
    /\ UNCHANGED << config, lifespan, conn, ctx, sessions, opened, req, health >>

\* lines 413-433, 450-485: the listing returned and was rendered, or the
\* listing or the rendering raised and `except Exception` makes the error
\* text of it; either way the async with is left, which awaits the
\* disconnect of the temporary client
resource_listed(r, ok) ==
    /\ res[r].pc = "listing"
    /\ res' = [res EXCEPT ![r] =
                  [pc |-> "closing", result |-> IF ok THEN "content" ELSE "error",
                   failed |-> IF ok THEN "none" ELSE "list"]]
    /\ UNCHANGED << config, lifespan, conn, ctx, sessions, opened, req, health >>

\* lines 412-433 without the async with: the temporary client stays open
resource_closed_leaking(r, raised) ==
    /\ res[r].pc = "closing"
    /\ res' = [res EXCEPT ![r] =
                  [pc |-> "done", result |-> IF raised THEN "error" ELSE res[r].result,
                   failed |-> IF raised THEN "close" ELSE res[r].failed]]
    /\ UNCHANGED << config, lifespan, conn, ctx, sessions, opened, req, health >>

\* lines 430-433, 482-485: the temporary client is closed and the text
\* returned; a disconnect that raises is caught like any other exception
resource_closed(r, raised) ==
    /\ res[r].pc = "closing"
    /\ res' = [res EXCEPT ![r] =
                  [pc |-> "done", result |-> IF raised THEN "error" ELSE res[r].result,
                   failed |-> IF raised THEN "close" ELSE res[r].failed]]
    /\ sessions' = sessions \ {r}
    /\ UNCHANGED << config, lifespan, conn, ctx, opened, req, health >>

\* the text has been sent
resource_collect(r) ==
    /\ res[r].pc = "done"
    /\ res' = [res EXCEPT ![r] = IdleRes]
    /\ UNCHANGED << config, lifespan, conn, ctx, sessions, opened, req, health >>

(***************************************************************************)
(* The framework around the handlers.                                      *)
(***************************************************************************)
\* line 148 with the client call detached from the request (run as a task
\* of its own): the cancellation ends the request and not the call
cancel_detached(t, failed) ==
    /\ req[t].pc = "awaiting"
    /\ req' = [req EXCEPT ![t].pc = "cancelled"]
    /\ UNCHANGED << config, lifespan, conn, ctx, sessions, opened, res, health >>

\* a call suspended at its await is cancelled: the handler awaits the client
\* call itself, so CancelledError is raised inside the client call, whose
\* cancel signal succeeds or fails, and then passes the except clauses of
\* the handler (it is no Exception): the call has no result
cancel(t, failed) ==
    /\ req[t].pc = "awaiting"
    /\ req' = [req EXCEPT ![t].pc = "cancelled",
                          ![t].backend =
                              SplunkClient_call(IF failed THEN "cancel_failed"
                                                          ELSE "cancelled")]
    /\ UNCHANGED << config, lifespan, conn, ctx, sessions, opened, res, health >>

\* the response has been sent; the task is free for the next call
collect(t) ==
    /\ req[t].pc \in {"done", "cancelled"}
    /\ req' = [req EXCEPT ![t] = IdleReq]
    /\ UNCHANGED << config, lifespan, conn, ctx, sessions, opened, res, health >>

\* calls and reads are served one after the other, calls by the first task
OneAtATime(t) ==
    /\ Quiet
    /\ \A u \in Tasks : t <= u

Serve(t) ==
    \/ OneAtATime(t) /\ \E q \in Queries : validate_spl(t, q)
    \/ OneAtATime(t) /\
         \E q \in Queries, m \in MaxCountArgs, f \in OutputFormats,
            rt \in ToleranceArgs, so \in SanitizeArgs :
              search_oneshot_call(t, q, m, f, rt, so)
    \/ OneAtATime(t) /\
         \E q \in Queries, m \in MaxCountArgs, f \in OutputFormats,
            rt \in ToleranceArgs, so \in SanitizeArgs :
              search_export_call(t, q, m, f, rt, so)
    \/ OneAtATime(t) /\ get_indexes(t)
    \/ OneAtATime(t) /\ get_saved_searches(t)
    \/ OneAtATime(t) /\ run_saved_search(t)
    \/ OneAtATime(t) /\ get_config(t)

Complete(t) ==
    \/ \E o \in BackendOutcomes, a \in 0..MaxBackendEvents :
           search_oneshot_return(t, o, a)
    \/ \E o \in BackendOutcomes, a \in 0..MaxBackendEvents :
           search_export_return(t, o, a)
    \/ \E op \in MetadataOps, o \in BackendOutcomes, n \in 0..MaxBackendEvents :
           metadata_return(t, op, o, n)
    \/ \E failed \in BOOLEAN : cancel(t, failed)
    \/ collect(t)

Lifespan ==
    \/ lifespan_connect_call
    \/ lifespan_yield
    \/ lifespan_connect_raises
    \/ \E how \in {"none", "session", "cancelled"} : lifespan_leave(how)
    \/ lifespan_disconnect_call
    \/ \E raised \in BOOLEAN : lifespan_disconnect_return(raised)

Read(r) ==
    \/ Quiet /\ resource_open(r)
    \/ \E ok \in BOOLEAN : resource_connected(r, ok)
    \/ \E ok \in BOOLEAN : resource_listed(r, ok)
    \/ \E raised \in BOOLEAN : resource_closed(r, raised)
    \/ resource_collect(r)

Next ==
    \/ Lifespan
    \/ \E t \in Tasks : Serve(t)
    \/ \E t \in Tasks : Complete(t)
    \/ \E r \in Resources : Read(r)

Spec == Init /\ [][Next]_vars

\* Once control is in the finally clause of line 57, or a resource handler
\* holds its temporary client, the event loop resumes the coroutine when the
\* awaited call returns or raises: these steps are not postponed for ever.
\* Nothing makes a session end, a call arrive or a response be collected.
Fairness ==
    /\ WF_vars(lifespan_disconnect_call)
    /\ WF_vars(\E raised \in BOOLEAN : lifespan_disconnect_return(raised))
    /\ \A r \in Resources :
          /\ WF_vars(\E ok \in BOOLEAN : resource_listed(r, ok))
          /\ WF_vars(\E raised \in BOOLEAN : resource_closed(r, raised))

FairSpec == Spec /\ Fairness

(***************************************************************************)
(* The session with its calls in flight together: every task may be handed *)
(* a call while the others are suspended at their await.  A handler runs   *)
(* without interruption from its call to its await and from its resumption *)
(* to its return, so these are the interleavings the event loop produces.  *)
(***************************************************************************)
ConcQueries == {{"resource"}, {"destructive"}}

ConcToleranceArgs == {None, Some(29), Some(100)}

ConcMaxCountArgs == {1, 100}

ConcServe(t) ==
    \/ \E q \in ConcQueries : validate_spl(t, q)
    \/ \E q \in ConcQueries, m \in ConcMaxCountArgs, rt \in ConcToleranceArgs :
           search_oneshot_call(t, q, m, "json", rt, None)
    \/ \E q \in ConcQueries, m \in ConcMaxCountArgs, rt \in ConcToleranceArgs :
           search_export_call(t, q, m, "json", rt, None)
    \/ get_indexes(t)

ConcNext ==
    \/ Lifespan
    \/ \E t \in Tasks : ConcServe(t)
    \/ \E t \in Tasks : Complete(t)

ConcSpec == Init /\ [][ConcNext]_vars

(***************************************************************************)
(* scripts/mcp_performance_monitor.py, check_mcp_sse_health (lines         *)
(* 155-258).  The monitor is a process of its own; the function is         *)
(* followed from one blocking probe to the next.  `probes` lists the       *)
(* probes made, in order.                                                  *)
(***************************************************************************)
StatusCodes == {200, 302, 401, 404, 500, 503}

\* round(response_time, 2): some measured number of milliseconds
ResponseTimes == {1, 9, 5000}

\* what a probe can come to: it returns, or raises one of the exceptions
\* the except clauses tell apart
ProbeOutcomes == {"returned", "Timeout", "ConnectionError", "Exception"}

ServerVars == << config, lifespan, conn, ctx, sessions, opened, req, res >>

\* lines 157-164: a check begins with a fresh health_data
check_mcp_sse_health ==
    /\ health.pc = "idle"
    /\ health' = [HealthIdle EXCEPT !.pc = "sse"]
    /\ UNCHANGED ServerVars

\* lines 166-204: requests.get on the SSE url.  A response updates
\* health_data (185-192) and is closed (194); the function returns it (195)
\* unless close() raised, which the except clauses of 197-204 catch like
\* any failure of the request, the update staying in health_data.
sse_request(outcome, status_code, ms, close_raised) ==
    /\ health.pc = "sse"
    /\ LET updated == [health.data EXCEPT
                          !.is_healthy = status_code \in {200, 302},
                          !.response_time_ms = ms,
                          !.status_code = status_code,
                          !.method = "sse_request"]
           error == IF outcome = "Timeout" THEN "SSE endpoint timeout"
                    ELSE IF outcome = "ConnectionError" THEN "SSE connection refused"
                    ELSE "SSE request failed"
       IN  health' =
             IF outcome = "returned" /\ ~close_raised
             THEN [pc |-> "done", data |-> updated,
                   probes |-> Append(health.probes, "sse")]
             ELSE IF outcome = "returned"
             THEN [pc |-> "http",
                   data |-> [updated EXCEPT !.error = Some("SSE request failed")],
                   probes |-> Append(health.probes, "sse")]
             ELSE [pc |-> "http",
                   data |-> [health.data EXCEPT !.error = Some(error)],
                   probes |-> Append(health.probes, "sse")]
    /\ UNCHANGED ServerVars

\* lines 206-227: requests.get on the root url; any status below 500 is a
\* healthy verdict and clears the error, 500 and above falls through
http_fallback(outcome, status_code, ms) ==
    /\ health.pc = "http"
    /\ health' =
         IF outcome = "returned" /\ status_code < 500
         THEN [pc |-> "done",
               data |-> [health.data EXCEPT
                            !.is_healthy = TRUE,
                            !.response_time_ms = ms,
                            !.status_code = status_code,
                            !.method = "http_fallback",
                            !.error = None],
               probes |-> Append(health.probes, "http")]
         ELSE IF outcome = "returned"
         THEN [health EXCEPT !.pc = "tcp",
                             !.probes = Append(health.probes, "http")]
         ELSE [pc |-> "tcp",
               data |-> [health.data EXCEPT !.error = Some("HTTP fallback failed")],
               probes |-> Append(health.probes, "http")]
    /\ UNCHANGED ServerVars

\* lines 229-258: connect_ex on the port; 0 is a healthy verdict that sets
\* an error text of its own (250), anything else ends in "all_failed"
tcp_check(outcome, result, ms) ==
    /\ health.pc = "tcp"
    /\ health' =
         IF outcome = "returned" /\ result = 0
         THEN [pc |-> "done",
               data |-> [health.data EXCEPT
                            !.is_healthy = TRUE,
                            !.response_time_ms = ms,
                            !.status_code = 200,
                            !.method = "tcp_check",
                            !.error = Some("TCP connect OK, HTTP failed")],
               probes |-> Append(health.probes, "tcp")]
         ELSE IF outcome = "returned"
         THEN [pc |-> "done",
               data |-> [health.data EXCEPT !.method = "all_failed"],
               probes |-> Append(health.probes, "tcp")]
         ELSE [pc |-> "done",
               data |-> [health.data EXCEPT
                            !.error = Some("All connection methods failed"),
                            !.method = "all_failed"],
               probes |-> Append(health.probes, "tcp")]
    /\ UNCHANGED ServerVars

\* the caller has taken the result; the monitor waits for its next round
health_collected ==
    /\ health.pc = "done"
    /\ health' = HealthIdle
    /\ UNCHANGED ServerVars

HealthNext ==
    \/ check_mcp_sse_health
    \/ \E o \in ProbeOutcomes, c \in StatusCodes, ms \in ResponseTimes,
          close_raised \in BOOLEAN : sse_request(o, c, ms, close_raised)
    \/ \E o \in ProbeOutcomes, c \in StatusCodes, ms \in ResponseTimes :
          http_fallback(o, c, ms)
    \/ \E o \in ProbeOutcomes, result \in {0, 111}, ms \in ResponseTimes :
          tcp_check(o, result, ms)
    \/ health_collected

\* the monitor runs beside a server started from the default environment
HealthInit == Init /\ config = Config(75, 100000, FALSE)

HealthSpec == HealthInit /\ [][HealthNext]_vars

(***************************************************************************)
(* Vocabulary of the properties.                                           *)
(***************************************************************************)
IsSearch(r) == r.op \in SearchOps

\* the request is past the guard of lines 115-116: its tolerance is resolved
PastGuard(r) == IsSearch(r) /\ r.risk_tolerance # None

\* the effective tolerance of a request, from its arguments and the config
EffectiveTolerance(r) ==
    IF r.args.risk_tolerance = None
    THEN config.spl_risk_tolerance
    ELSE r.args.risk_tolerance[1]

\* the score of the request's query
Score(r) == validate_spl_query(r.args.query).risk_score

\* the risk assessment was evaluated within the request
Assessed(r) == r.risk # None

Count(seq, x) == Cardinality({i \in DOMAIN seq : seq[i] = x})

Assessments(r) == Count(r.trace, "validate_spl_query")

BackendCalls(r) == Len(r.trace) - Assessments(r)

\* the result hands events to the caller, as they are or rendered
ReturnsEvents(r) == r.pc = "done" /\ r.result.kind \in {"events", "content"}

C2_BlockedNeverSearches ==
    \A t \in Tasks :
        (IsSearch(req[t]) /\ Assessed(req[t])
            /\ req[t].risk[1].risk_score > EffectiveTolerance(req[t]))
        => /\ BackendCalls(req[t]) = 0
           /\ req[t].pc = "done"
           /\ ~ReturnsEvents(req[t])
           /\ "events" \notin DOMAIN req[t].result
           /\ "content" \notin DOMAIN req[t].result

\* a destructive query has been refused by search_export
C2_Witness ==
    \E t \in Tasks :
        /\ req[t].op = "search_export" /\ req[t].pc = "done"
        /\ "destructive" \in req[t].args.query
        /\ Assessed(req[t])
        /\ req[t].risk[1].risk_score > EffectiveTolerance(req[t])
        /\ BackendCalls(req[t]) = 0

(***************************************************************************)
(* C3: the gate boundary is inclusive.  For every score and tolerance in   *)
(* 0..100, would_execute is true exactly when score <= tolerance, both in  *)
(* the verdict validate_spl reports and in the decision search_oneshot and *)
(* search_export take (the backend is called exactly when score <=         *)
(* tolerance, the request is blocked exactly when it is not).              *)
(***************************************************************************)
C3_InclusiveBoundary ==
    \A t \in Tasks :
        /\ (req[t].op = "validate_spl" /\ req[t].pc = "done"
              /\ config.spl_risk_tolerance \in 0..100) =>
              /\ req[t].result.risk_score = Score(req[t])
              /\ req[t].result.risk_tolerance = config.spl_risk_tolerance
              /\ req[t].result.would_execute
                    <=> Score(req[t]) <= config.spl_risk_tolerance
        /\ (PastGuard(req[t]) /\ EffectiveTolerance(req[t]) \in 0..100) =>
              /\ BackendCalls(req[t]) = 1
                    <=> Score(req[t]) <= EffectiveTolerance(req[t])
              /\ (req[t].pc = "done" /\ req[t].result.kind = "blocked")
                    <=> Score(req[t]) > EffectiveTolerance(req[t])

\* score == tolerance: validate_spl has said yes
C3_Witness ==
    \E t \in Tasks :
        /\ req[t].op = "validate_spl" /\ req[t].pc = "done"
        /\ req[t].result.risk_score = req[t].result.risk_tolerance
        /\ req[t].result.risk_score > 0
        /\ req[t].result.would_execute

(***************************************************************************)
(* C4 as stated: a tolerance outside [0,100], from the configuration or    *)
(* from the per-call risk_tolerance, is rejected as a configuration error: *)
(* no search is executed with it and it is not treated as an in-range      *)
(* value (no verdict and no risk decision is made with it).  The code      *)
(* takes any integer: line 46 and lines 123-124 validate nothing.          *)
(***************************************************************************)
C4_OutOfRangeToleranceRejected ==
    \A t \in Tasks :
        /\ (PastGuard(req[t]) /\ EffectiveTolerance(req[t]) \notin 0..100) =>
              /\ BackendCalls(req[t]) = 0
              /\ req[t].pc = "done" => req[t].result.kind \notin {"events", "content", "blocked"}
        /\ (req[t].op = "validate_spl" /\ req[t].pc = "done"
              /\ config.spl_risk_tolerance \notin 0..100) =>
              req[t].result.kind # "verdict"

C6_BlockedIsStructuredResult ==
    \A t \in Tasks :
        (PastGuard(req[t]) /\ Score(req[t]) > EffectiveTolerance(req[t])) =>
            /\ req[t].pc = "done"
            /\ req[t].result.kind = "blocked"
            /\ {"error", "risk_score", "risk_tolerance", "risk_message",
                "search_executed"} \subseteq DOMAIN req[t].result
            /\ req[t].result.risk_score = Score(req[t])
            /\ req[t].result.risk_tolerance = EffectiveTolerance(req[t])
            /\ req[t].result.risk_message =
                   validate_spl_query(req[t].args.query).risk_message
            /\ req[t].result.search_executed = FALSE

\* search_oneshot has refused a query under a per-call tolerance that is
\* stricter than the configured one
C6_Witness ==
    \E t \in Tasks :
        /\ req[t].op = "search_oneshot" /\ req[t].pc = "done"
        /\ req[t].result.kind = "blocked"
        /\ req[t].args.risk_tolerance # None
        /\ req[t].result.risk_tolerance < config.spl_risk_tolerance
        /\ req[t].result.risk_score <= config.spl_risk_tolerance

(***************************************************************************)
(* C8 as stated: the connection only ever moves Disconnected -> Connecting *)
(* -> Connected -> Disconnecting -> Disconnected.  Refuted by the failure  *)
(* of connect(): the client falls back from Connecting to Disconnected and *)
(* the finally clause of line 57 then calls disconnect() on it.            *)
(***************************************************************************)
CycleEdges ==
    {<< "Disconnected", "Connecting" >>, << "Connecting", "Connected" >>,
     << "Connected", "Disconnecting" >>, << "Disconnecting", "Disconnected" >>}

C8_OnlyTheCycle == [][conn' # conn => << conn, conn' >> \in CycleEdges]_vars

(***************************************************************************)
(* C8 as amended: the connection moves Disconnected -> Connecting ->       *)
(* Connected -> Disconnecting -> Disconnected, except that a connect()     *)
(* that fails falls back Connecting -> Disconnected, after which the       *)
(* lifespan still calls disconnect() (Disconnected -> Disconnecting ->     *)
(* Disconnected); the application context is made available to request     *)
(* handlers only after connect() has succeeded, and no request handler is  *)
(* given the context after disconnect() has started.                       *)
(***************************************************************************)
FailureEdges ==
    {<< "Connecting", "Disconnected" >>, << "Disconnected", "Disconnecting" >>}

C8_LifecycleAndContext ==
    /\ [](ctx # None => (conn = "Connected" /\ opened = 1))
    /\ [][conn' # conn =>
            \/ << conn, conn' >> \in CycleEdges
            \/ << conn, conn' >> \in FailureEdges /\ opened = 0 /\ ctx = None]_vars
    /\ [][\A t \in Tasks :
            (req[t].pc = "idle" /\ req'[t].pc # "idle") =>
                (ctx # None /\ conn = "Connected")]_vars

\* the whole cycle has been walked, the context having been yielded
C8_Witness ==
    /\ lifespan.pc = "exited"
    /\ opened = 1
    /\ conn = "Disconnected"
    /\ ctx = None

(***************************************************************************)
(* C9: if connect() fails at startup, the connection state is Disconnected *)
(* afterwards, the failure is surfaced to the caller of the lifespan (the  *)
(* lifespan ends with an exception), and no AppContext is ever yielded, so *)
(* no request is served on a failed connection.                            *)
(***************************************************************************)
ConnectFailed == lifespan.pc \in {"finally", "disconnecting", "exited"} /\ opened = 0

C9_FailedConnectServesNothing ==
    /\ opened = 0 =>
          /\ ctx = None
          /\ \A t \in Tasks : req[t] = IdleReq
          /\ \A r \in Resources : res[r].pc = "idle"
    /\ ConnectFailed =>
          /\ lifespan.error \in {"connect", "disconnect"}
          /\ "lifespan" \notin sessions
          /\ lifespan.pc \in {"finally", "exited"} => conn = "Disconnected"
          /\ lifespan.pc = "finally" => lifespan.error = "connect"

\* the lifespan has ended with the exception of connect()
C9_Witness ==
    /\ lifespan = [pc |-> "exited", error |-> "connect"]
    /\ opened = 0
    /\ conn = "Disconnected"

(***************************************************************************)
(* C10 as stated: exactly one backend connection exists for the process    *)
(* lifetime and no operation of the server, tool or resource handler,      *)
(* creates a second one while the process runs.  Refuted: each resource    *)
(* read opens a client of its own (lines 412, 449).                        *)
(***************************************************************************)
C10_NoSecondConnection == Cardinality(sessions) <= 1

(***************************************************************************)
(* C10 as amended: exactly one connection owned by the lifespan exists for *)
(* the process lifetime, created once at startup and destroyed once at     *)
(* shutdown, and no tool handler creates a connection; each read of a      *)
(* resource opens one further, temporary connection of its own and closes  *)
(* it before the read returns.                                             *)
(***************************************************************************)
C10_OneLifespanConnection ==
    /\ [](opened <= 1)
    /\ []("lifespan" \in sessions <=>
             (opened = 1 /\ lifespan.pc \in {"serving", "finally", "disconnecting"}))
    /\ [](sessions \ {"lifespan"} = {r \in Resources : res[r].pc \in {"listing", "closing"}})
    /\ [][(\E t \in Tasks : req'[t] # req[t]) => sessions' = sessions]_vars

\* a resource read holds its own connection beside the lifespan's
C10_Witness ==
    /\ "lifespan" \in sessions
    /\ "splunk://indexes" \in sessions
    /\ res["splunk://indexes"].pc = "listing"

(***************************************************************************)
(* C11: every connection that is acquired is eventually released on every  *)
(* exit path.  After a successful connect the lifespan calls disconnect()  *)
(* whether the served session ends normally, with an error or by           *)
(* cancellation: "serving" is left only into the finally clause, the       *)
(* lifespan is exited only out of disconnect(), and the lifespan's         *)
(* connection is then released.  Each temporary client a resource handler  *)
(* opened is closed, whether the listing succeeded or raised, before the   *)
(* handler returns.                                                        *)
(***************************************************************************)
C11_ReleasedOnEveryExit ==
    /\ [][(lifespan.pc = "serving" /\ lifespan'.pc # "serving")
             => lifespan'.pc = "finally"]_vars
    /\ [][(lifespan.pc # "exited" /\ lifespan'.pc = "exited")
             => (lifespan.pc = "disconnecting" /\ conn = "Disconnecting")]_vars
    /\ [](lifespan.pc = "exited" => "lifespan" \notin sessions)
    /\ \A how \in {"none", "session", "cancelled"} :
          ("lifespan" \in sessions /\ lifespan.pc = "finally" /\ lifespan.error = how)
              ~> (lifespan.pc = "exited" /\ "lifespan" \notin sessions)
    /\ [](\A r \in Resources : res[r].pc \in {"idle", "done"} => r \notin sessions)
    /\ \A r \in Resources :
          \A result \in {"content", "error"} :
              (r \in sessions /\ res[r].pc = "closing" /\ res[r].result = result)
                  ~> (r \notin sessions /\ res[r].pc = "done")
    /\ \A r \in Resources : (r \in sessions) ~> (r \notin sessions)

\* the session was cancelled after a successful connect and the lifespan
\* has been left through disconnect(), its connection released
C11_Witness ==
    /\ lifespan = [pc |-> "exited", error |-> "cancelled"]
    /\ opened = 1
    /\ conn = "Disconnected"
    /\ sessions = {}

(***************************************************************************)
(* C12 as stated: disconnecting is best-effort; a failure raised by        *)
(* disconnect() during shutdown does not propagate out of the lifespan (a  *)
(* lifespan that has been left never carries the exception of              *)
(* disconnect()) and does not prevent shutdown.  Refuted: the await of     *)
(* line 57 stands in a finally clause with no except around it, so the     *)
(* exception of disconnect() is the one the lifespan is left with.         *)
(***************************************************************************)
C12_DisconnectFailureContained ==
    lifespan.pc = "exited" => lifespan.error # "disconnect"

(***************************************************************************)
(* C13 as stated: for every permitted search_oneshot or search_export      *)
(* request whose caller-supplied max_count is nonzero, the limit handed to *)
(* the backend client, and therefore the number of events returned, is at  *)
(* most that max_count, for every value of max_count including 100.        *)
(* Refuted: lines 144-145 / 261-262 replace a max_count of 100 by the      *)
(* configured spl_max_events_count, which defaults to 100000.              *)
(***************************************************************************)
C13_LimitAtMostCallerMaxCount ==
    \A t \in Tasks :
        (IsSearch(req[t]) /\ BackendCalls(req[t]) = 1
            /\ req[t].args.max_count # 0) =>
            /\ req[t].max_count # None
            /\ req[t].max_count[1] <= req[t].args.max_count
            /\ ReturnsEvents(req[t]) =>
                  req[t].result.event_count <= req[t].args.max_count

(***************************************************************************)
(* C14: a search_export request with max_count = 0 reaches the executor    *)
(* with limit 0 (unlimited), unchanged by the configured default, and the  *)
(* executor consumes the stream until the backend signals completion:      *)
(* every event the backend produced is in the result the request returns,  *)
(* none is truncated.                                                      *)
(***************************************************************************)
C14_ExportUnlimited ==
    \A t \in Tasks :
        (req[t].op = "search_export" /\ req[t].args.max_count = 0
            /\ BackendCalls(req[t]) = 1) =>
            /\ req[t].max_count = Some(0)
            /\ ReturnsEvents(req[t]) =>
                  /\ req[t].produced # None
                  /\ req[t].result.event_count = req[t].produced[1]
                  /\ IF req[t].result.kind = "events"
                     THEN req[t].result.events.n = req[t].produced[1]
                     ELSE req[t].result.content.n = req[t].produced[1]

\* an unlimited export has returned more events than the configured
\* default count would have let through
C14_Witness ==
    \E t \in Tasks :
        /\ req[t].op = "search_export" /\ req[t].args.max_count = 0
        /\ ReturnsEvents(req[t])
        /\ req[t].produced = Some(MaxBackendEvents)
        /\ req[t].result.event_count = MaxBackendEvents
        /\ config.spl_max_events_count < MaxBackendEvents

(***************************************************************************)
(* C15 as stated: every failure of a backend call made by a tool operation *)
(* is returned to the caller as one uniform error result that carries both *)
(* a human-readable message and a details payload; the failure is returned *)
(* (the call ends "done"), never as a successful-looking result.  Refuted: *)
(* the `except Exception` clauses (lines 212-213, 313-314, 336-337,        *)
(* 359-360, 385-386) return a message and no details.                      *)
(***************************************************************************)
C15_UniformErrorResult ==
    \A t \in Tasks :
        (req[t].pc = "done" /\ req[t].result.kind \in {"api_error", "failed"}) =>
            /\ BackendCalls(req[t]) = 1
            /\ {"error", "details"} \subseteq DOMAIN req[t].result
            /\ DOMAIN req[t].result \cap {"events", "content", "count"} = {}

(***************************************************************************)
(* C16: a per-call override (risk_tolerance, sanitize_output, max_count)   *)
(* never changes the process-wide configuration: no step of any request    *)
(* changes the shared config, so after any sequence of requests it holds   *)
(* the spl_risk_tolerance, spl_sanitize_output and spl_max_events_count of *)
(* startup; and a request without overrides is decided with the configured *)
(* values, whatever overrides the other requests carried.                  *)
(***************************************************************************)
C16_OverridesLeaveConfig ==
    /\ [][config' = config]_vars
    /\ [](\A t \in Tasks :
            /\ PastGuard(req[t]) =>
                  /\ req[t].args.risk_tolerance = None =>
                        req[t].risk_tolerance = Some(config.spl_risk_tolerance)
                  /\ req[t].args.sanitize_output = None =>
                        req[t].sanitize_output = config.spl_sanitize_output
                  /\ (req[t].args.max_count = 100 /\ req[t].max_count # None) =>
                        req[t].max_count = Some(config.spl_max_events_count)
                  /\ (req[t].args.risk_tolerance = None /\ req[t].pc = "done"
                        /\ req[t].result.kind = "blocked") =>
                        req[t].result.risk_tolerance = config.spl_risk_tolerance
            /\ (req[t].op = "validate_spl" /\ req[t].pc = "done") =>
                  req[t].result.risk_tolerance = config.spl_risk_tolerance)

\* beside a request that ran a destructive query under an override of 100,
\* a request without override was refused at the configured tolerance
C16_Witness ==
    /\ req[1].op = "search_oneshot" /\ req[1].args.risk_tolerance = Some(100)
    /\ req[1].args.query = {"destructive"}
    /\ ReturnsEvents(req[1])
    /\ req[2].op = "search_oneshot" /\ req[2].args.risk_tolerance = None
    /\ req[2].args.query = {"destructive"}
    /\ req[2].pc = "done" /\ req[2].result.kind = "blocked"
    /\ req[2].result.risk_tolerance = 75
    /\ config.spl_risk_tolerance = 75

(***************************************************************************)
(* C17: under any interleaving of concurrent search requests over the      *)
(* shared connection, each request's verdict and result depend only on its *)
(* own query, tolerance and limits.  A request is blocked or executed      *)
(* exactly as it would be when run alone (the decision is the one its own  *)
(* arguments and the configuration give), the tolerance and the assessment *)
(* it holds are its own, and the number of backend search invocations      *)
(* equals the number of permitted requests.                                *)
(***************************************************************************)
\* the decision of the request taken by itself
PermittedAlone(r) ==
    ~(EffectiveTolerance(r) < 100 /\ Score(r) > EffectiveTolerance(r))

\* the limit of the request taken by itself
LimitAlone(r) ==
    IF r.args.max_count = 100 THEN config.spl_max_events_count ELSE r.args.max_count

C17_RequestsIndependent ==
    /\ \A t \in Tasks :
          PastGuard(req[t]) =>
              LET r == req[t]
              IN  /\ r.risk_tolerance = Some(EffectiveTolerance(r))
                  /\ Assessed(r) => r.risk[1] = validate_spl_query(r.args.query)
                  /\ PermittedAlone(r) <=> BackendCalls(r) = 1
                  /\ PermittedAlone(r) <=> r.max_count = Some(LimitAlone(r))
                  /\ ~PermittedAlone(r) <=>
                        (r.pc = "done" /\ r.result.kind = "blocked")
                  /\ (r.pc = "done" /\ r.result.kind = "blocked") =>
                        /\ r.result.risk_score = Score(r)
                        /\ r.result.risk_tolerance = EffectiveTolerance(r)
                  /\ ReturnsEvents(r) =>
                        r.result.event_count =
                            SplunkClient_search(r.produced[1], LimitAlone(r))
    /\ Cardinality({t \in Tasks : IsSearch(req[t]) /\ BackendCalls(req[t]) = 1})
          = Cardinality({t \in Tasks : PastGuard(req[t]) /\ PermittedAlone(req[t])})

\* two searches are in flight over the shared connection together, with
\* different tolerances and limits, while the same query under the
\* configured tolerance would have been refused
C17_Witness ==
    /\ req[1].pc = "awaiting" /\ req[2].pc = "awaiting"
    /\ req[1].op = "search_oneshot" /\ req[2].op = "search_export"
    /\ req[1].args.query = {"destructive"} /\ req[2].args.query = {"resource"}
    /\ req[1].risk_tolerance = Some(100) /\ req[2].risk_tolerance = Some(30)
    /\ req[1].max_count = Some(1) /\ req[2].max_count = Some(2)
    /\ conn = "Connected"

(***************************************************************************)
(* C18: if a caller's search request is abandoned or cancelled while the   *)
(* backend call is in flight, the backend has been signalled to cancel the *)
(* job and the open stream has been released by the time the request ends  *)
(* (no ended request leaves a running job behind); a failure of that       *)
(* cancel does not terminate the process: the lifespan goes on serving on  *)
(* the same connection and the other requests are untouched.               *)
(***************************************************************************)
C18_CancelReleasesBackend ==
    /\ [](\A t \in Tasks :
            /\ req[t].backend = "running" <=> req[t].pc = "awaiting"
            /\ (IsSearch(req[t]) /\ req[t].pc = "cancelled") =>
                  req[t].backend \in {"cancelled", "cancel_failed"})
    /\ [][\A t \in Tasks :
            (req[t].pc = "awaiting" /\ req'[t].pc = "cancelled") =>
                /\ req'[t].backend \in {"cancelled", "cancel_failed"}
                /\ lifespan.pc = "serving" /\ lifespan' = lifespan
                /\ conn' = conn /\ ctx' = ctx /\ ctx # None
                /\ \A u \in Tasks \ {t} : req'[u] = req[u]]_vars

\* a search was cancelled in flight and its cancel signal failed: its
\* stream is released, the server still serves and another search runs on
C18_Witness ==
    /\ req[1].op = "search_export" /\ req[1].pc = "cancelled"
    /\ req[1].backend = "cancel_failed"
    /\ req[2].op = "search_oneshot" /\ req[2].pc = "awaiting"
    /\ req[2].backend = "running"
    /\ lifespan.pc = "serving" /\ conn = "Connected"

(***************************************************************************)
(* C19: get_indexes, get_saved_searches and run_saved_search never invoke  *)
(* the risk assessor and are never blocked by the risk tolerance (each     *)
(* call goes to the backend once, whatever the tolerance), and they report *)
(* backend failures through the same error result shape as the search     *)
(* operations: for a SplunkAPIError and for any other exception, the       *)
(* result has the keys the search operations give it.                      *)
(***************************************************************************)
\* the keys of the result the except clauses of a handler return
ErrorShape(kind) ==
    IF kind = "api_error" THEN {"kind", "error", "details"} ELSE {"kind", "error"}

C19_MetadataUngated ==
    \A t \in Tasks :
        /\ req[t].op \in MetadataOps =>
              /\ ~Assessed(req[t])
              /\ Assessments(req[t]) = 0
              /\ req[t].trace = << "client." \o req[t].op >>
              /\ req[t].pc = "done" =>
                    req[t].result.kind \in {"listing", "api_error", "failed"}
        /\ (req[t].op \in MetadataOps \cup SearchOps /\ req[t].pc = "done"
              /\ req[t].result.kind \in {"api_error", "failed"}) =>
              DOMAIN req[t].result = ErrorShape(req[t].result.kind)

\* under a tolerance that refuses every search, run_saved_search went to
\* the backend and reported its SplunkAPIError
C19_Witness ==
    \E t \in Tasks :
        /\ req[t].op = "run_saved_search" /\ req[t].pc = "done"
        /\ req[t].result.kind = "api_error"
        /\ config.spl_risk_tolerance < 0

(***************************************************************************)
(* C20: for every query containing a destructive command as a pipeline     *)
(* stage (e.g. "| delete"), the risk score is >= 90, so at the default     *)
(* tolerance of 75 validate_spl reports would_execute = false and          *)
(* search_oneshot and search_export return an error result with no events, *)
(* the backend not having been called.                                     *)
(***************************************************************************)
C20_DestructiveBlockedByDefault ==
    \A t \in Tasks :
        "destructive" \in req[t].args.query =>
            /\ Score(req[t]) >= 90
            /\ (req[t].op = "validate_spl" /\ req[t].pc = "done") =>
                  /\ req[t].result.risk_score >= 90
                  /\ config.spl_risk_tolerance = 75 =>
                        req[t].result.would_execute = FALSE
            /\ (PastGuard(req[t]) /\ EffectiveTolerance(req[t]) = 75) =>
                  /\ req[t].pc = "done"
                  /\ req[t].result.kind = "blocked"
                  /\ "error" \in DOMAIN req[t].result
                  /\ req[t].result.risk_score >= 90
                  /\ DOMAIN req[t].result \cap {"events", "content"} = {}
                  /\ BackendCalls(req[t]) = 0

\* "| delete" alone, at the default tolerance, has been refused by
\* search_oneshot with its score of 90
C20_Witness ==
    \E t \in Tasks :
        /\ req[t].op = "search_oneshot" /\ req[t].pc = "done"
        /\ req[t].args.query = {"destructive"}
        /\ req[t].args.risk_tolerance = None
        /\ config.spl_risk_tolerance = 75
        /\ req[t].result.kind = "blocked"
        /\ req[t].result.risk_score = 90
        /\ req[t].result.risk_tolerance = 75

(***************************************************************************)
(* C21: the risk score of every query is an integer in [0,100]: the        *)
(* contributions of all triggered rules are summed and the sum is clamped  *)
(* to that range, so the risk_score reported by validate_spl and the one   *)
(* compared (and reported) by the search gate never lie outside 0..100.    *)
(***************************************************************************)
C21_ScoreWithinRange ==
    \A t \in Tasks :
        /\ Assessed(req[t]) =>
              /\ req[t].risk[1].risk_score \in 0..100
              /\ req[t].risk[1].risk_score =
                    (IF SumWeights(req[t].args.query) > 100 THEN 100
                     ELSE SumWeights(req[t].args.query))
        /\ (req[t].pc = "done" /\ req[t].result.kind \in {"verdict", "blocked"}) =>
              /\ req[t].result.risk_score \in 0..100
              /\ req[t].result.risk_score = req[t].risk[1].risk_score

\* a query whose rules sum to more than 100 has been reported at 100
C21_Witness ==
    \E t \in Tasks :
        /\ req[t].op = "validate_spl" /\ req[t].pc = "done"
        /\ SumWeights(req[t].args.query) > 100
        /\ req[t].result.risk_score = 100

C23_ConnectedFlag ==
    \A t \in Tasks :
        (req[t].op = "get_config" /\ req[t].pc = "done") =>
            /\ req[t].result.kind = "config"
            /\ req[t].result.splunk_connected
                  <=> (conn = "Connected" /\ "lifespan" \in sessions)

\* get_config has answered on the connected server
C23_Witness ==
    \E t \in Tasks :
        /\ req[t].op = "get_config" /\ req[t].pc = "done"
        /\ req[t].result.splunk_connected
        /\ conn = "Connected"
        /\ lifespan.pc = "serving"

(***************************************************************************)
(* C24: for every query and every configured tolerance, the would_execute  *)
(* verdict returned by validate_spl equals whether search_oneshot and      *)
(* search_export, called with the same query and no risk_tolerance         *)
(* override, invoke the backend client: validate_spl reports true if and   *)
(* only if the search is not blocked.                                      *)
(***************************************************************************)
C24_VerdictMatchesGate ==
    \A t, u \in Tasks :
        (req[t].op = "validate_spl" /\ req[t].pc = "done"
            /\ PastGuard(req[u]) /\ req[u].args.risk_tolerance = None
            /\ req[u].args.query = req[t].args.query) =>
            /\ req[t].result.would_execute <=> BackendCalls(req[u]) = 1
            /\ ~req[t].result.would_execute
                  <=> (req[u].pc = "done" /\ req[u].result.kind = "blocked")

\* at a configured tolerance above 100, where the search skips the
\* assessment, validate_spl says yes to a destructive query and the export
\* of the same query is with the backend
C24_Witness ==
    /\ req[1].op = "validate_spl" /\ req[1].pc = "done"
    /\ req[1].args.query = {"destructive"}
    /\ req[1].result.would_execute
    /\ req[2].op = "search_export" /\ req[2].pc = "awaiting"
    /\ req[2].args.query = {"destructive"}
    /\ req[2].args.risk_tolerance = None
    /\ ~Assessed(req[2])
    /\ config.spl_risk_tolerance > 100

(***************************************************************************)
(* C25: search_oneshot and search_export apply the same gate and the same  *)
(* limit resolution: for every query, risk_tolerance override, max_count   *)
(* and configuration, either both block with the same risk_score and       *)
(* risk_tolerance or both invoke the backend client with the same          *)
(* effective max_count.                                                    *)
(***************************************************************************)
C25_OneshotExportSameGate ==
    \A t, u \in Tasks :
        (PastGuard(req[t]) /\ PastGuard(req[u])
            /\ req[t].op = "search_oneshot" /\ req[u].op = "search_export"
            /\ req[t].args.query = req[u].args.query
            /\ req[t].args.risk_tolerance = req[u].args.risk_tolerance
            /\ req[t].args.max_count = req[u].args.max_count) =>
            \/ /\ req[t].pc = "done" /\ req[t].result.kind = "blocked"
               /\ req[u].pc = "done" /\ req[u].result.kind = "blocked"
               /\ req[t].result.risk_score = req[u].result.risk_score
               /\ req[t].result.risk_tolerance = req[u].result.risk_tolerance
               /\ BackendCalls(req[t]) = 0 /\ BackendCalls(req[u]) = 0
            \/ /\ BackendCalls(req[t]) = 1 /\ BackendCalls(req[u]) = 1
               /\ req[t].max_count # None
               /\ req[t].max_count = req[u].max_count
               /\ req[t].risk = req[u].risk

\* the same query under the same override has been refused by both
C25_Witness ==
    \E t, u \in Tasks :
        /\ req[t].op = "search_oneshot" /\ req[u].op = "search_export"
        /\ req[t].args.query = {"resource"} /\ req[u].args.query = {"resource"}
        /\ req[t].args.risk_tolerance = Some(29)
        /\ req[u].args.risk_tolerance = Some(29)
        /\ req[t].result.kind = "blocked" /\ req[u].result.kind = "blocked"
        /\ req[t].result.risk_score = 30 /\ req[u].result.risk_score = 30
        /\ config.spl_risk_tolerance = 75

(***************************************************************************)
(* C26: get_config never returns the keys splunk_password or splunk_token, *)
(* and it leaves the shared process configuration unchanged: after any     *)
(* number of get_config calls the shared config still holds the            *)
(* credentials and has no splunk_connected key.                            *)
(***************************************************************************)
C26_ConfigCopyStripped ==
    /\ [](\A t \in Tasks :
            (req[t].op = "get_config" /\ req[t].pc = "done") =>
                /\ DOMAIN req[t].result.config
                      = DOMAIN config \ {"splunk_password", "splunk_token"}
                /\ \A k \in DOMAIN req[t].result.config :
                      req[t].result.config[k] = config[k]
                /\ "splunk_connected" \in DOMAIN req[t].result)
    /\ []({"splunk_password", "splunk_token"} \subseteq DOMAIN config
            /\ "splunk_connected" \notin DOMAIN config)
    /\ [][(\E t \in Tasks : req[t].pc = "idle" /\ req'[t].op = "get_config")
            => config' = config]_vars

\* get_config has answered without the credentials, which the shared
\* config still holds
C26_Witness ==
    \E t \in Tasks :
        /\ req[t].op = "get_config" /\ req[t].pc = "done"
        /\ "splunk_password" \notin DOMAIN req[t].result.config
        /\ "splunk_token" \notin DOMAIN req[t].result.config
        /\ "spl_risk_tolerance" \in DOMAIN req[t].result.config
        /\ config.splunk_password = "secret"
        /\ config.splunk_token = "token"

(***************************************************************************)
(* C27: the output_format of a search request is checked only after the    *)
(* search has run.  A permitted request with an output_format outside      *)
(* {json, markdown, md, csv, summary} invokes the backend client exactly   *)
(* once and then, the backend having answered, returns an error result     *)
(* containing no events; a blocked request returns the risk error          *)
(* regardless of its output_format.                                        *)
(***************************************************************************)
ValidFormats == {"json", "markdown", "md", "csv", "summary"}

C27_FormatCheckedAfterSearch ==
    \A t \in Tasks :
        PastGuard(req[t]) =>
            LET r == req[t]
            IN  /\ (PermittedAlone(r) /\ r.args.output_format \notin ValidFormats) =>
                      /\ BackendCalls(r) = 1
                      /\ r.pc \in {"awaiting", "done", "cancelled"}
                      /\ (r.pc = "done" /\ r.produced # None) =>
                            /\ r.result.kind = "format_error"
                            /\ DOMAIN r.result = {"kind", "error"}
                /\ (r.pc = "done" /\ r.result.kind = "format_error") =>
                      /\ r.args.output_format \notin ValidFormats
                      /\ r.trace[Len(r.trace)] = "client." \o r.op
                      /\ r.produced # None
                /\ ~PermittedAlone(r) =>
                      (r.pc = "done" /\ r.result.kind = "blocked")

\* a search with an unknown output_format ran, the backend answered with
\* events, and the request returned the format error
C27_Witness ==
    \E t \in Tasks :
        /\ req[t].op = "search_oneshot" /\ req[t].pc = "done"
        /\ req[t].args.output_format = "xml"
        /\ req[t].result.kind = "format_error"
        /\ req[t].produced = Some(MaxBackendEvents)
        /\ BackendCalls(req[t]) = 1

(***************************************************************************)
(* C28: output sanitization is applied to the events of a search if and    *)
(* only if the effective sanitize flag is true, where the per-call         *)
(* sanitize_output argument, when given (true or false), takes precedence  *)
(* over the configured spl_sanitize_output; it is applied only after a     *)
(* permitted search returned and never on a blocked request.               *)
(***************************************************************************)
\* the sanitize flag of the request taken by itself
EffectiveSanitize(r) ==
    IF r.args.sanitize_output = None
    THEN config.spl_sanitize_output
    ELSE r.args.sanitize_output[1]

\* the events of the result, as they are or rendered
ResultEvents(r) ==
    IF r.result.kind = "events" THEN r.result.events ELSE r.result.content

C28_SanitizedIffFlag ==
    \A t \in Tasks :
        /\ PastGuard(req[t]) => req[t].sanitize_output = EffectiveSanitize(req[t])
        /\ (IsSearch(req[t]) /\ ReturnsEvents(req[t])) =>
              /\ ResultEvents(req[t]).sanitized <=> EffectiveSanitize(req[t])
              /\ req[t].produced # None
              /\ BackendCalls(req[t]) = 1
        /\ (IsSearch(req[t]) /\ req[t].pc = "done"
              /\ req[t].result.kind = "blocked") =>
              /\ DOMAIN req[t].result \cap {"events", "content"} = {}
              /\ req[t].result.data_returned = None

\* under a configuration that sanitizes, a call with sanitize_output=False
\* has returned its events as the backend gave them
C28_Witness ==
    \E t \in Tasks :
        /\ req[t].op = "search_oneshot" /\ ReturnsEvents(req[t])
        /\ config.spl_sanitize_output = TRUE
        /\ req[t].args.sanitize_output = Some(FALSE)
        /\ ~ResultEvents(req[t]).sanitized
        /\ req[t].result.event_count > 0

(***************************************************************************)
(* C29 as stated: check_mcp_sse_health tries the SSE request, then the     *)
(* HTTP root request, then the TCP connect, in that order, and stops at    *)
(* the first probe that yields a verdict; in every result,                 *)
(* method = "all_failed" implies is_healthy = false, and is_healthy = true *)
(* implies method is one of sse_request, http_fallback, tcp_check and      *)
(* error is empty.  Refuted: the healthy tcp_check result carries the      *)
(* error text of line 250, and an update left behind by a response whose   *)
(* close() raised keeps is_healthy true into an "all_failed" result.       *)
(***************************************************************************)
C29_HealthVerdict ==
    /\ health.probes \in {<< >>, << "sse" >>, << "sse", "http" >>,
                          << "sse", "http", "tcp" >>}
    /\ health.pc = "done" =>
          /\ health.data.method = "all_failed" => ~health.data.is_healthy
          /\ health.data.is_healthy =>
                /\ health.data.method \in {"sse_request", "http_fallback", "tcp_check"}
                /\ health.data.error = None

(***************************************************************************)
(* C30: the resource handlers splunk://saved-searches and splunk://indexes *)
(* never raise: any failure while connecting, listing or rendering (or     *)
(* closing) is returned as an "Error retrieving ..." text, a read without  *)
(* failure returns the content; and the temporary client each call opens   *)
(* is independent of the process-wide connection, so no step of a resource *)
(* read changes the state of the shared connection, its context or the     *)
(* tool calls.                                                             *)
(***************************************************************************)
C30_ResourcesNeverRaise ==
    /\ [](\A r \in Resources :
            /\ res[r].result \in {"none", "content", "error"}
            /\ res[r].pc = "done" =>
                  /\ res[r].result = "error" <=> res[r].failed # "none"
                  /\ res[r].result = "content" <=> res[r].failed = "none"
            /\ res[r].pc # "idle" => (conn = "Connected" /\ "lifespan" \in sessions))
    /\ [][(\E r \in Resources : res'[r] # res[r]) =>
            /\ conn' = conn /\ lifespan' = lifespan /\ ctx' = ctx
            /\ opened' = opened /\ req' = req /\ config' = config
            /\ "lifespan" \in sessions' <=> "lifespan" \in sessions]_vars

\* a read whose listing raised has returned the error text, its temporary
\* client closed, the shared connection still Connected
C30_Witness ==
    \E r \in Resources :
        /\ res[r].pc = "done" /\ res[r].result = "error"
        /\ res[r].failed = "list"
        /\ r \notin sessions
        /\ conn = "Connected" /\ "lifespan" \in sessions
        /\ ctx # None

====
